---- MODULE Spec2Model ----
(***************************************************************************)
(* Model of src/src/unix.rs: the Kerberos/GSSAPI security-context wrapper   *)
(* (ClientCtx, ServerCtx, K5Ctx, K5ServerCtx) and the two buffer strategies *)
(* of wrap_iov / unwrap_iov (cargo feature krb5_iov on or off).             *)
(*                                                                          *)
(* The GSSAPI mechanism itself (crate libgssapi: step, wrap, wrap_iov,      *)
(* wrap_iov_length, unwrap, unwrap_iov, lifetime, source_name) is not part  *)
(* of the repository.  Its operators are named Gss... and follow the        *)
(* mechanism contract that spec.md states; everything else is translated    *)
(* from unix.rs.                                                            *)
(*                                                                          *)
(* Option<T> is a sequence of length 0 (None) or 1 (Some(x)).               *)
(* A byte buffer (BytesMut, &[u8], Buf) is a sequence of naturals.          *)
(***************************************************************************)
EXTENDS Integers, Sequences, FiniteSets, TLC

\* ---------------------------------------------------------------- bounds
\* the largest number of handshake tokens a mechanism may need
MaxLegs == 3
\* the longest plaintext handed to wrap / wrap_iov
MaxLen == 1
\* the largest number of protected messages packed in the source buffer
MaxPacked == 2
\* the last tick of the clock
MaxNow == 4

\* ------------------------------------------------ mechanism token layout
ByteMod == 256
\* length of the mechanism's token header: <<flags, extra count>>
HdrLen == 2
\* length of the mechanism's trailer: <<checksum>>
TrlLen == 1
\* the cipher block the padding fills up
BlockSize == 2
\* first flags byte of a protected message; + 1 sent by acceptor, + 2 sealed
TokId == 4
\* the session key of the (abstract) cipher
Key == 5
\* the tick at which the credentials of the contexts expire
Lifetime == 3

None == << >>
Some(x) == << x >>

RECURSIVE Sum(_)
Sum(s) == IF s = << >> THEN 0 ELSE Head(s) + Sum(Tail(s))

Fill(n, b) == [i \in 1..n |-> b]

Enc(s) == [i \in 1..Len(s) |-> (s[i] + Key) % ByteMod]
Dec(s) == [i \in 1..Len(s) |-> (s[i] + ByteMod - Key) % ByteMod]

IsAcceptor(ctx) == ctx.role = "acceptor"
Established(ctx) == ctx.st = "Established"

Flags(ctx, encrypt) ==
    TokId + (IF IsAcceptor(ctx) THEN 1 ELSE 0) + (IF encrypt THEN 2 ELSE 0)

\* extra count: the padding the mechanism needs for n bytes of data
PadLen(encrypt, n) ==
    IF encrypt THEN (BlockSize - (n % BlockSize)) % BlockSize ELSE 0

MechHeader(ctx, encrypt, n) == << Flags(ctx, encrypt), PadLen(encrypt, n) >>
MechBody(encrypt, plain) == IF encrypt THEN Enc(plain) ELSE plain
MechPadding(encrypt, n) == Fill(PadLen(encrypt, n), PadLen(encrypt, n))
MechTrailer(ctx, encrypt, plain) ==
    << (Sum(plain) + Flags(ctx, encrypt)) % ByteMod >>

\* gss_wrap: the whole protected message as one token
GssWrap(ctx, encrypt, plain) ==
    IF ~Established(ctx)
    THEN [ok |-> FALSE, token |-> << >>]
    ELSE [ok |-> TRUE,
          token |-> MechHeader(ctx, encrypt, Len(plain))
                    \o MechBody(encrypt, plain)
                    \o MechPadding(encrypt, Len(plain))
                    \o MechTrailer(ctx, encrypt, plain)]

\* gss_wrap_iov_length: the length-only probe
GssWrapIovLength(ctx, encrypt, n) ==
    IF ~Established(ctx)
    THEN [ok |-> FALSE, header |-> 0, padding |-> 0, trailer |-> 0]
    ELSE [ok |-> TRUE, header |-> HdrLen,
          padding |-> PadLen(encrypt, n), trailer |-> TrlLen]

\* gss_wrap_iov: the in-place transform over the four pre-sized segments
GssWrapIov(ctx, encrypt, header, data, padding, trailer) ==
    IF \/ ~Established(ctx)
       \/ Len(header) # HdrLen
       \/ Len(padding) # PadLen(encrypt, Len(data))
       \/ Len(trailer) # TrlLen
    THEN [ok |-> FALSE, header |-> header, data |-> data,
          padding |-> padding, trailer |-> trailer]
    ELSE [ok |-> TRUE,
          header |-> MechHeader(ctx, encrypt, Len(data)),
          data |-> MechBody(encrypt, data),
          padding |-> MechPadding(encrypt, Len(data)),
          trailer |-> MechTrailer(ctx, encrypt, data)]

\* Parsing of a protected message by the receiving mechanism.
\* stage: "header" (rejected before anything is transformed),
\*        "verify" (rejected after the in-place transform), "ok".
MechParse(ctx, s) ==
    IF \/ ~Established(ctx)
       \/ Len(s) < HdrLen + TrlLen
    THEN [stage |-> "header", plain |-> << >>, stream |-> s]
    ELSE
    LET flags == s[1]
        ec == s[2]
        bodyLen == Len(s) - HdrLen - TrlLen
        sealed == flags \in {TokId + 2, TokId + 3}
        fromAcceptor == flags \in {TokId + 1, TokId + 3}
    IN  IF \/ flags \notin TokId..(TokId + 3)
           \/ fromAcceptor = IsAcceptor(ctx)
           \/ ec > bodyLen
           \/ (~sealed /\ ec # 0)
        THEN [stage |-> "header", plain |-> << >>, stream |-> s]
        ELSE
        LET dataLen == bodyLen - ec
            body == SubSeq(s, HdrLen + 1, HdrLen + dataLen)
            pad == SubSeq(s, HdrLen + dataLen + 1, HdrLen + bodyLen)
            plain == IF sealed THEN Dec(body) ELSE body
            stream == SubSeq(s, 1, HdrLen) \o plain
                      \o SubSeq(s, HdrLen + dataLen + 1, Len(s))
        IN  IF /\ s[Len(s)] = (Sum(plain) + flags) % ByteMod
               /\ pad = Fill(ec, ec)
               /\ ec = PadLen(sealed, dataLen)
            THEN [stage |-> "ok", plain |-> plain, stream |-> stream]
            ELSE [stage |-> "verify", plain |-> << >>, stream |-> stream]

\* gss_unwrap: whole-message inverse transform of an immutable token
GssUnwrap(ctx, token) ==
    LET r == MechParse(ctx, token)
    IN  [ok |-> r.stage = "ok", plain |-> r.plain]

\* gss_unwrap_iov over [Stream, Data]: transforms the stream in place and
\* reports where the recovered data lies inside it
GssUnwrapIov(ctx, stream) ==
    LET r == MechParse(ctx, stream)
    IN  [ok |-> r.stage = "ok", stream |-> r.stream,
         hdr_len |-> HdrLen, data_len |-> Len(r.plain)]

\* ------------------------------------------------ bytes::BytesMut primitives
Resize(b, n, fill) ==
    IF n <= Len(b) THEN SubSeq(b, 1, n) ELSE b \o Fill(n - Len(b), fill)
Advance(b, n) == SubSeq(b, n + 1, Len(b))
SplitTo(b, n) == SubSeq(b, 1, n)

\* ------------------------------------------------ unix.rs: wrap_iov
\* What a call of wrap_iov did with the mechanism: calls, the operations in
\* the order of their invocation; probe, what wrap_iov_length was asked and
\* answered; given, what the transform was handed.
NoProbe == [encrypt |-> FALSE, n |-> 0, header |-> 0, padding |-> 0,
            trailer |-> 0]
NoGiven == [encrypt |-> FALSE, header |-> << >>, data |-> << >>,
            padding |-> << >>, trailer |-> << >>]

\* wrap_iov (segmented) that makes room in header, padding and trailer
\* where they are too short, and leaves them as they are where they are not
wrap_iov_segmented_OnlyGrows(ctx, encrypt, header, data, padding, trailer) ==
    LET len_iovs == GssWrapIovLength(ctx, encrypt, Len(data))
        probe == [encrypt |-> encrypt, n |-> Len(data),
                  header |-> len_iovs.header, padding |-> len_iovs.padding,
                  trailer |-> len_iovs.trailer]
        grown(b, n) == IF Len(b) < n THEN Resize(b, n, 0) ELSE b
        h == grown(header, len_iovs.header)
        p == grown(padding, len_iovs.padding)
        t == grown(trailer, len_iovs.trailer)
        r == GssWrapIov(ctx, encrypt, h, data, p, t)
    IN  IF ~len_iovs.ok
        THEN [ok |-> FALSE, header |-> header, data |-> data,
              padding |-> padding, trailer |-> trailer,
              calls |-> << "wrap_iov_length" >>,
              failed |-> "wrap_iov_length", probe |-> probe,
              given |-> NoGiven]
        ELSE [ok |-> r.ok, header |-> r.header, data |-> r.data,
              padding |-> r.padding, trailer |-> r.trailer,
              calls |-> << "wrap_iov_length", "resize", "wrap_iov" >>,
              failed |-> IF r.ok THEN "" ELSE "wrap_iov",
              probe |-> probe,
              given |-> [encrypt |-> encrypt, header |-> h, data |-> data,
                         padding |-> p, trailer |-> t]]

\* #[cfg(feature = "krb5_iov")] fn wrap_iov
wrap_iov_segmented(ctx, encrypt, header, data, padding, trailer) ==
    LET len_iovs == GssWrapIovLength(ctx, encrypt, Len(data))
        probe == [encrypt |-> encrypt, n |-> Len(data),
                  header |-> len_iovs.header, padding |-> len_iovs.padding,
                  trailer |-> len_iovs.trailer]
        h == Resize(header, len_iovs.header, 0)
        p == Resize(padding, len_iovs.padding, 0)
        t == Resize(trailer, len_iovs.trailer, 0)
        r == GssWrapIov(ctx, encrypt, h, data, p, t)
    IN  IF ~len_iovs.ok
        THEN [ok |-> FALSE, header |-> header, data |-> data,
              padding |-> padding, trailer |-> trailer,
              calls |-> << "wrap_iov_length" >>,
              failed |-> "wrap_iov_length", probe |-> probe,
              given |-> NoGiven]
        ELSE [ok |-> r.ok, header |-> r.header, data |-> r.data,
              padding |-> r.padding, trailer |-> r.trailer,
              calls |-> << "wrap_iov_length", "resize", "wrap_iov" >>,
              failed |-> IF r.ok THEN "" ELSE "wrap_iov",
              probe |-> probe,
              given |-> [encrypt |-> encrypt, header |-> h, data |-> data,
                         padding |-> p, trailer |-> t]]

\* #[cfg(not(feature = "krb5_iov"))] fn wrap_iov
wrap_iov_blob(ctx, encrypt, header, data, padding, trailer) ==
    LET token == GssWrap(ctx, encrypt, data)
    IN  IF ~token.ok
        THEN [ok |-> FALSE, header |-> header, data |-> data,
              padding |-> padding, trailer |-> trailer,
              calls |-> << "wrap" >>, failed |-> "wrap",
              probe |-> NoProbe, given |-> NoGiven]
        ELSE [ok |-> TRUE, header |-> header, data |-> token.token,
              padding |-> padding, trailer |-> trailer,
              calls |-> << "wrap" >>, failed |-> "",
              probe |-> NoProbe, given |-> NoGiven]

\* ------------------------------------------------ unix.rs: unwrap_iov
\* a call that panics (a slice or a split past the end of the buffer)
\* before it reaches the mechanism
Panic(msg) ==
    [kind |-> "panic", out |-> << >>, msg |-> msg, calls |-> << >>,
     failed |-> ""]

\* unwrap_iov (segmented) that splits the data off the front of the stream,
\* without first advancing past the header
unwrap_iov_segmented_NoHeaderSkip(ctx, len, msg) ==
    IF len > Len(msg)
    THEN Panic(msg)
    ELSE
    LET iov == GssUnwrapIov(ctx, SubSeq(msg, 1, len))
        inplace == iov.stream \o Advance(msg, len)
    IN  IF ~iov.ok
        THEN [kind |-> "err", out |-> << >>, msg |-> inplace,
              calls |-> << "unwrap_iov" >>, failed |-> "unwrap_iov"]
        ELSE [kind |-> "ok", out |-> SplitTo(inplace, iov.data_len),
              msg |-> Advance(inplace, len),
              calls |-> << "unwrap_iov" >>, failed |-> ""]

\* unwrap_iov (segmented) that stops after it split the data off, leaving
\* padding and trailer at the front of the source buffer
unwrap_iov_segmented_LeavesTrailer(ctx, len, msg) ==
    IF len > Len(msg)
    THEN Panic(msg)
    ELSE
    LET iov == GssUnwrapIov(ctx, SubSeq(msg, 1, len))
        inplace == iov.stream \o Advance(msg, len)
    IN  IF ~iov.ok
        THEN [kind |-> "err", out |-> << >>, msg |-> inplace,
              calls |-> << "unwrap_iov" >>, failed |-> "unwrap_iov"]
        ELSE
        LET m1 == Advance(inplace, iov.hdr_len)
            data == SplitTo(m1, iov.data_len)
            m2 == Advance(m1, iov.data_len)
        IN  [kind |-> "ok", out |-> data, msg |-> m2,
             calls |-> << "unwrap_iov" >>, failed |-> ""]

\* #[cfg(feature = "krb5_iov")] fn unwrap_iov
unwrap_iov_segmented(ctx, len, msg) ==
    IF len > Len(msg)
    THEN Panic(msg)
    ELSE
    LET iov == GssUnwrapIov(ctx, SubSeq(msg, 1, len))
        inplace == iov.stream \o Advance(msg, len)
    IN  IF ~iov.ok
        THEN [kind |-> "err", out |-> << >>, msg |-> inplace,
              calls |-> << "unwrap_iov" >>, failed |-> "unwrap_iov"]
        ELSE IF iov.hdr_len + iov.data_len > len
        THEN [kind |-> "panic", out |-> << >>, msg |-> inplace,
              calls |-> << "unwrap_iov" >>, failed |-> ""]
        ELSE
        LET m1 == Advance(inplace, iov.hdr_len)
            data == SplitTo(m1, iov.data_len)
            m2 == Advance(m1, iov.data_len)
            m3 == Advance(m2, len - iov.hdr_len - iov.data_len)
        IN  [kind |-> "ok", out |-> data, msg |-> m3,
             calls |-> << "unwrap_iov" >>, failed |-> ""]

\* unwrap_iov (single-blob) whose msg.clear() empties the caller's source
\* buffer instead of the piece split off it
unwrap_iov_blob_ClearsSource(ctx, len, msg) ==
    IF len > Len(msg)
    THEN Panic(msg)
    ELSE
    LET decrypted == GssUnwrap(ctx, SplitTo(msg, len))
    IN  IF ~decrypted.ok
        THEN [kind |-> "err", out |-> << >>, msg |-> Advance(msg, len),
              calls |-> << "unwrap" >>, failed |-> "unwrap"]
        ELSE [kind |-> "ok", out |-> decrypted.plain, msg |-> << >>,
              calls |-> << "unwrap" >>, failed |-> ""]

\* #[cfg(not(feature = "krb5_iov"))] fn unwrap_iov
unwrap_iov_blob(ctx, len, msg) ==
    IF len > Len(msg)
    THEN Panic(msg)
    ELSE
    LET head == SplitTo(msg, len)
        rest == Advance(msg, len)
        decrypted == GssUnwrap(ctx, head)
    IN  IF ~decrypted.ok
        THEN [kind |-> "err", out |-> << >>, msg |-> rest,
              calls |-> << "unwrap" >>, failed |-> "unwrap"]
        ELSE [kind |-> "ok", out |-> decrypted.plain, msg |-> rest,
              calls |-> << "unwrap" >>, failed |-> ""]


\* the strategy the build selected (cargo feature krb5_iov)
wrap_iov(feature, ctx, encrypt, header, data, padding, trailer) ==
    IF feature
    THEN wrap_iov_segmented(ctx, encrypt, header, data, padding, trailer)
    ELSE wrap_iov_blob(ctx, encrypt, header, data, padding, trailer)

unwrap_iov(feature, ctx, len, msg) ==
    IF feature
    THEN unwrap_iov_segmented(ctx, len, msg)
    ELSE unwrap_iov_blob(ctx, len, msg)

\* ------------------------------------------------ the handshake mechanism
\* A handshake token is [leg, last]: leg counts the tokens of the exchange
\* (odd legs are the initiator's, even legs the acceptor's) and last says
\* that its sender is complete and awaits no reply.  A context holds the leg
\* it awaits next (0: none).
Token(leg, last) == [leg |-> leg, last |-> last]
\* a token the mechanism rejects
BadTok == Token(0, FALSE)

\* the mechanism has accepted what it was given and emits leg n; more: it
\* needs a reply (GSS_S_CONTINUE_NEEDED), which the bound allows up to MaxLegs
Emit(ctx, n, more) ==
    LET continue == more /\ n < MaxLegs
    IN  [ctx |-> [ctx EXCEPT !.st = IF continue THEN "Negotiating"
                                    ELSE "Established",
                             !.await = IF continue THEN n + 1 ELSE 0],
         kind |-> "ok", major |-> "", tok |-> Some(Token(n, ~continue))]

\* the mechanism has accepted the peer's last token
Complete(ctx) ==
    [ctx |-> [ctx EXCEPT !.st = "Established", !.await = 0],
     kind |-> "ok", major |-> "", tok |-> None]

Reject(ctx, major) ==
    [ctx |-> [ctx EXCEPT !.st = "Failed"], kind |-> "err", major |-> major,
     tok |-> None]

\* GssClientCtx::step: gss_init_sec_context behind libgssapi's state check.
\* more: the mechanism's choice to need a further token; lenient: whether
\* the mechanism ignores an input token on the first call.
GssClientStep(ctx, token, more, lenient) ==
    CASE ctx.st = "Failed" ->
             [ctx |-> ctx, kind |-> "err", major |-> "GSS_S_FAILURE",
              tok |-> None]
      [] ctx.st = "Established" ->
             [ctx |-> ctx, kind |-> "ok", major |-> "", tok |-> None]
      [] ctx.st = "Created" ->
             IF token = None \/ lenient
             THEN Emit(ctx, 1, more)
             ELSE Reject(ctx, "GSS_S_DEFECTIVE_TOKEN")
      [] ctx.st = "Negotiating" ->
             IF token = None \/ token = Some(BadTok)
             THEN Reject(ctx, "GSS_S_DEFECTIVE_TOKEN")
             ELSE IF token[1].leg # ctx.await
             THEN Reject(ctx, "GSS_S_DEFECTIVE_TOKEN")
             ELSE IF token[1].last
             THEN Complete(ctx)
             ELSE Emit(ctx, ctx.await + 1, more)

\* GssServerCtx::step: gss_accept_sec_context behind libgssapi's state check.
\* paired: the initiator's target and credential are those of this acceptor;
\* src: the initiator's principal, which its tokens carry.
GssServerStep(ctx, token, more, paired, src) ==
    CASE ctx.st = "Failed" ->
             [ctx |-> ctx, kind |-> "err", major |-> "GSS_S_FAILURE",
              tok |-> None]
      [] ctx.st = "Established" ->
             [ctx |-> ctx, kind |-> "ok", major |-> "", tok |-> None]
      [] OTHER ->
             IF token.leg # ctx.await \/ ~paired
             THEN Reject(ctx, "GSS_S_DEFECTIVE_TOKEN")
             ELSE IF token.last
             THEN Complete([ctx EXCEPT !.peer = src])
             ELSE Emit([ctx EXCEPT !.peer = src], ctx.await + 1, more)

\* SecurityContext::lifetime (gss_context_time): the time left until the
\* context expires
GssLifetime(ctx, clock) ==
    IF ~Established(ctx)
    THEN [kind |-> "err", major |-> "GSS_S_NO_CONTEXT", val |-> None]
    ELSE IF clock >= Lifetime
    THEN [kind |-> "err", major |-> "GSS_S_CONTEXT_EXPIRED", val |-> None]
    ELSE [kind |-> "ok", major |-> "", val |-> Some(Lifetime - clock)]

\* ServerCtx::source_name (gss_inquire_context): the Name of the initiator
GssSourceName(ctx) ==
    IF Established(ctx)
    THEN [kind |-> "ok", major |-> "", name |-> [principal |-> ctx.peer]]
    ELSE [kind |-> "err", major |-> "GSS_S_NO_CONTEXT",
          name |-> [principal |-> ""]]

\* impl Display for Name (gss_display_name)
GssNameDisplay(n) == n.principal

\* ------------------------------------------------ unix.rs: the two contexts
\* What a method returns, with what it did to get it: calls, the mechanism
\* operations it invoked, in order; failed, the one that failed ("": none).
Through(op, r) ==
    [ctx |-> r.ctx, kind |-> r.kind, major |-> r.major, tok |-> r.tok,
     calls |-> << op >>, failed |-> IF r.kind = "err" THEN op ELSE ""]

\* ClientCtx::step that does not hand the peer's token to the mechanism
ClientCtx_step_DropsToken(ctx, token, more, lenient) ==
    Through("step", GssClientStep(ctx, None, more, lenient))

\* ClientCtx::step that turns a mechanism failure into "no output token"
ClientCtx_step_SwallowsError(ctx, token, more, lenient) ==
    LET r == Through("step", GssClientStep(ctx, token, more, lenient))
    IN  IF r.kind = "err" THEN [r EXCEPT !.kind = "ok", !.major = ""] ELSE r

\* impl K5Ctx for ClientCtx: fn step
ClientCtx_step(ctx, token, more, lenient) ==
    Through("step", GssClientStep(ctx, token, more, lenient))

\* ServerCtx::step that takes "no token" as "nothing to do"
ServerCtx_step_NoneIsOk(ctx, token, more, paired, src) ==
    IF token # None
    THEN Through("step", GssServerStep(ctx, token[1], more, paired, src))
    ELSE [ctx |-> ctx, kind |-> "ok", major |-> "", tok |-> None,
          calls |-> << >>, failed |-> ""]

\* ServerCtx::step that does not return the mechanism's output token
ServerCtx_step_KeepsToken(ctx, token, more, paired, src) ==
    IF token # None
    THEN [Through("step", GssServerStep(ctx, token[1], more, paired, src))
              EXCEPT !.tok = None]
    ELSE [ctx |-> ctx, kind |-> "err", major |-> "GSS_S_DEFECTIVE_TOKEN",
          tok |-> None, calls |-> << >>, failed |-> ""]

\* ServerCtx::step that hands "no token" to the mechanism as an empty token
ServerCtx_step_EmptyToken(ctx, token, more, paired, src) ==
    IF token # None
    THEN Through("step", GssServerStep(ctx, token[1], more, paired, src))
    ELSE [Through("step", GssServerStep(ctx, BadTok, more, paired, src))
              EXCEPT !.major = "GSS_S_DEFECTIVE_TOKEN"]

\* impl K5Ctx for ServerCtx: fn step
ServerCtx_step(ctx, token, more, paired, src) ==
    IF token # None
    THEN Through("step", GssServerStep(ctx, token[1], more, paired, src))
    ELSE [ctx |-> ctx, kind |-> "err", major |-> "GSS_S_DEFECTIVE_TOKEN",
          tok |-> None, calls |-> << >>, failed |-> ""]

\* fn wrap of both impls
K5Ctx_wrap(ctx, encrypt, msg) ==
    LET r == GssWrap(ctx, encrypt, msg)
    IN  IF r.ok
        THEN [kind |-> "ok", major |-> "", val |-> r.token,
              calls |-> << "wrap" >>, failed |-> ""]
        ELSE [kind |-> "err", major |-> "GSS_S_NO_CONTEXT", val |-> << >>,
              calls |-> << "wrap" >>, failed |-> "wrap"]

\* unwrap that asks the mechanism a second time when it fails
K5Ctx_unwrap_Retries(ctx, msg) ==
    LET r == GssUnwrap(ctx, msg)
        again == GssUnwrap(ctx, msg)
    IN  IF r.ok
        THEN [kind |-> "ok", major |-> "", val |-> r.plain,
              calls |-> << "unwrap" >>, failed |-> ""]
        ELSE IF again.ok
        THEN [kind |-> "ok", major |-> "", val |-> again.plain,
              calls |-> << "unwrap", "unwrap" >>, failed |-> ""]
        ELSE [kind |-> "err", major |-> "GSS_S_DEFECTIVE_TOKEN",
              val |-> << >>, calls |-> << "unwrap", "unwrap" >>,
              failed |-> "unwrap"]

\* fn unwrap of both impls
K5Ctx_unwrap(ctx, msg) ==
    LET r == GssUnwrap(ctx, msg)
    IN  IF r.ok
        THEN [kind |-> "ok", major |-> "", val |-> r.plain,
              calls |-> << "unwrap" >>, failed |-> ""]
        ELSE [kind |-> "err", major |-> "GSS_S_DEFECTIVE_TOKEN",
              val |-> << >>, calls |-> << "unwrap" >>,
              failed |-> "unwrap"]

\* what ttl returns of the mechanism's answer r
Lived(r) ==
    [kind |-> r.kind, major |-> r.major, val |-> r.val,
     calls |-> << "lifetime" >>,
     failed |-> IF r.kind = "err" THEN "lifetime" ELSE ""]

\* ttl that answers a zero duration when the mechanism has none
K5Ctx_ttl_Default(ctx, clock) ==
    LET r == Lived(GssLifetime(ctx, clock))
    IN  IF r.kind = "err"
        THEN [r EXCEPT !.kind = "ok", !.major = "", !.val = Some(0)]
        ELSE r

\* ttl that answers the time the context has lived
K5Ctx_ttl_Elapsed(ctx, clock) ==
    LET r == Lived(GssLifetime(ctx, clock))
    IN  IF r.kind = "err" THEN r ELSE [r EXCEPT !.val = Some(clock)]

\* fn ttl of both impls
K5Ctx_ttl(ctx, clock) == Lived(GssLifetime(ctx, clock))

\* client() that formats the name the acceptor itself accepts under
ServerCtx_client_OwnName(ctx) ==
    LET n == GssSourceName(ctx)
    IN  IF n.kind = "err"
        THEN [kind |-> "err", major |-> n.major, name |-> "",
              calls |-> << "source_name" >>, failed |-> "source_name"]
        ELSE [kind |-> "ok", major |-> "", name |-> ctx.name,
              calls |-> << "source_name" >>, failed |-> ""]

\* impl K5ServerCtx for ServerCtx: fn client
ServerCtx_client(ctx) ==
    LET n == GssSourceName(ctx)
    IN  IF n.kind = "err"
        THEN [kind |-> "err", major |-> n.major, name |-> "",
              calls |-> << "source_name" >>, failed |-> "source_name"]
        ELSE [kind |-> "ok", major |-> "", name |-> GssNameDisplay(n.name),
              calls |-> << "source_name" >>, failed |-> ""]

\* ------------------------------------------------ unix.rs: construction
\* The identity / credential store and the mechanism library as a constructor
\* finds them: env.known are the principals the store resolves, env.mech is
\* "ok" or the OidSet operation that fails ("oidset": OidSet::new, "add":
\* OidSet::add), env.cred says whether a credential can be acquired.
Names == {"alice", "service", "other"}
Envs == [known : SUBSET Names, mech : {"ok", "oidset", "add"}, cred : BOOLEAN]
\* a store that resolves every name and grants every credential
Sound == [known |-> Names, mech |-> "ok", cred |-> TRUE]

\* Name::new(n, GSS_NT_KRB5_PRINCIPAL)?.canonicalize(GSS_MECH_KRB5)
GssCanonicalName(env, n) ==
    IF n \in env.known
    THEN [ok |-> TRUE,
          name |-> CASE n = "alice" -> "alice@REALM"
                     [] n = "service" -> "service@REALM"
                     [] OTHER -> "other@REALM"]
    ELSE [ok |-> FALSE, name |-> ""]

\* the principal of the default credential of a usage
DefaultPrincipal(usage) ==
    IF usage = "Initiate" THEN "user@REALM" ELSE "service@REALM"

\* Cred::acquire(name, None, usage, Some(mechs)); name is an Option
GssCredAcquire(env, name, usage) ==
    IF env.cred
    THEN [ok |-> TRUE,
          name |-> IF name = None THEN DefaultPrincipal(usage) ELSE name[1]]
    ELSE [ok |-> FALSE, name |-> ""]

\* GssClientCtx::new(cred, target, flags, mech): a context yet to take a step
GssClientCtxNew(cred, target) ==
    [role |-> "initiator", st |-> "Created", await |-> 0,
     name |-> cred.name, peer |-> "", target |-> target]

\* GssServerCtx::new(cred)
GssServerCtxNew(cred) ==
    [role |-> "acceptor", st |-> "Created", await |-> 1,
     name |-> cred.name, peer |-> "", target |-> ""]

\* the place of a context that was not constructed
Absent(role) ==
    [role |-> role, st |-> "Absent", await |-> 0, name |-> "", peer |-> "",
     target |-> ""]

\* Err(e) of a constructor: the operation that failed, and the operations
\* the constructor had invoked by then
Aborted(role, calls) ==
    [kind |-> "err", at |-> calls[Len(calls)], calls |-> calls,
     ctx |-> Absent(role)]

\* ClientCtx::new that falls back to the default credential when the local
\* principal does not resolve
ClientCtx_new_DefaultsName(principal, target_principal, env) ==
    LET name == IF principal = None THEN [ok |-> TRUE, name |-> ""]
                ELSE GssCanonicalName(env, principal[1])
        c1 == IF principal = None THEN << >> ELSE << "name" >>
        target == GssCanonicalName(env, target_principal)
        cred == GssCredAcquire(env,
                               IF principal = None \/ ~name.ok THEN None
                               ELSE Some(name.name),
                               "Initiate")
    IN  IF ~target.ok THEN Aborted("initiator", c1 \o << "target" >>)
        ELSE IF env.mech = "oidset"
        THEN Aborted("initiator", c1 \o << "target", "oidset" >>)
        ELSE IF env.mech = "add"
        THEN Aborted("initiator", c1 \o << "target", "oidset", "add" >>)
        ELSE IF ~cred.ok
        THEN Aborted("initiator",
                     c1 \o << "target", "oidset", "add", "acquire" >>)
        ELSE [kind |-> "ok", at |-> "",
              calls |-> c1 \o << "target", "oidset", "add", "acquire",
                                 "context" >>,
              ctx |-> GssClientCtxNew(cred, target.name)]

\* impl ClientCtx: pub fn new(principal, target_principal)
ClientCtx_new(principal, target_principal, env) ==
    LET name == IF principal = None THEN [ok |-> TRUE, name |-> ""]
                ELSE GssCanonicalName(env, principal[1])
        c1 == IF principal = None THEN << >> ELSE << "name" >>
        target == GssCanonicalName(env, target_principal)
        cred == GssCredAcquire(env,
                               IF principal = None THEN None
                               ELSE Some(name.name),
                               "Initiate")
    IN  IF ~name.ok THEN Aborted("initiator", c1)
        ELSE IF ~target.ok THEN Aborted("initiator", c1 \o << "target" >>)
        ELSE IF env.mech = "oidset"
        THEN Aborted("initiator", c1 \o << "target", "oidset" >>)
        ELSE IF env.mech = "add"
        THEN Aborted("initiator", c1 \o << "target", "oidset", "add" >>)
        ELSE IF ~cred.ok
        THEN Aborted("initiator",
                     c1 \o << "target", "oidset", "add", "acquire" >>)
        ELSE [kind |-> "ok", at |-> "",
              calls |-> c1 \o << "target", "oidset", "add", "acquire",
                                 "context" >>,
              ctx |-> GssClientCtxNew(cred, target.name)]

\* impl ServerCtx: pub fn new(principal)
ServerCtx_new(principal, env) ==
    LET name == IF principal = None THEN [ok |-> TRUE, name |-> ""]
                ELSE GssCanonicalName(env, principal[1])
        c1 == IF principal = None THEN << >> ELSE << "name" >>
        cred == GssCredAcquire(env,
                               IF principal = None THEN None
                               ELSE Some(name.name),
                               "Accept")
    IN  IF ~name.ok THEN Aborted("acceptor", c1)
        ELSE IF env.mech = "oidset"
        THEN Aborted("acceptor", c1 \o << "oidset" >>)
        ELSE IF env.mech = "add"
        THEN Aborted("acceptor", c1 \o << "oidset", "add" >>)
        ELSE IF ~cred.ok
        THEN Aborted("acceptor", c1 \o << "oidset", "add", "acquire" >>)
        ELSE [kind |-> "ok", at |-> "",
              calls |-> c1 \o << "oidset", "add", "acquire", "context" >>,
              ctx |-> GssServerCtxNew(cred)]


\* ------------------------------------------------------------------ state
VARIABLES
    krb5_iov,   \* the build's cargo feature: TRUE segmented, FALSE single-blob
    paired,     \* the initiator was constructed for this acceptor
    cctx,       \* ClientCtx(GssClientCtx)
    sctx,       \* ServerCtx(GssServerCtx)
    wire,       \* Option: the handshake token in flight
    msg,        \* the receiving caller's source buffer
    queue,      \* what the callers know of each message still packed in msg
    inSync,     \* msg holds exactly the messages of queue, back to back
    res,        \* the last call: its arguments, its result, the buffers after
    octx,       \* a ClientCtx of another session
    dup,        \* the context a clone was taken of ("": there is no clone)
    now         \* the mechanism's clock, in ticks

vars == << krb5_iov, paired, cctx, sctx, wire, msg, queue, inSync, res,
           octx, dup, now >>

build == << krb5_iov, paired >>
stream == << msg, queue, inSync >>
pool == << octx, dup >>

\* ----------------------------------------------------------------- inputs
\* the plaintexts: 1, 2, .. n for every length n up to MaxLen
Plain == {[i \in 1..n |-> i] : n \in 0..MaxLen}
\* what a reused header / padding / trailer buffer may still hold
Stale == {<< >>, << 9, 9, 9 >>}
\* header, padding and trailer buffers that hold nothing at the call
Fresh == << << >>, << >>, << >> >>
Who == {"client", "server"}

\* Clone of GssClientCtx / GssServerCtx: the methods take &self and the
\* mechanism state lies behind the handle, which the clone holds as well
GssCtxClone(handle) == handle

\* a ClientCtx / ServerCtx whose contexts all hold the initiator's handle
Handle_OneInitiator(who) ==
    IF who = "clone" THEN GssCtxClone(dup)
    ELSE IF who = "other" THEN "client"
    ELSE who

\* The mechanism handle a context value holds: each constructed context its
\* own, the clone ("clone") what #[derive(Clone)] made of its original's.
Handle(who) ==
    IF who = "clone" THEN GssCtxClone(dup) ELSE who

\* the mechanism state behind a handle
State(handle) ==
    CASE handle = "client" -> cctx
      [] handle = "server" -> sctx
      [] handle = "other" -> octx
      [] OTHER -> Absent("")

Ctx(who) == State(Handle(who))
Peer(who) == IF who = "client" THEN "server" ELSE "client"

NoCall == [op |-> "none", who |-> "", pre |-> "", arg |-> None,
           tok |-> None, encrypt |-> FALSE, kind |-> "", major |-> "", val |-> None,
           name |-> "", len |-> 0,
           before |-> << >>, framed |-> FALSE, expect |-> << >>,
           stale |-> << >>, header |-> << >>, data |-> << >>,
           padding |-> << >>, trailer |-> << >>,
           principal |-> None, target |-> "",
           env |-> [known |-> {}, mech |-> "", cred |-> FALSE],
           calls |-> << >>, failed |-> "", probe |-> NoProbe,
           given |-> NoGiven]

Call(op, who, r) ==
    [NoCall EXCEPT !.op = op, !.who = who, !.pre = Ctx(who).st,
                   !.kind = r.kind, !.major = r.major, !.val = r.val,
                   !.calls = r.calls, !.failed = r.failed]

Stepped(who, token, r) ==
    [NoCall EXCEPT !.op = "step", !.who = who, !.pre = Ctx(who).st,
                   !.arg = token, !.kind = r.kind, !.major = r.major,
                   !.tok = r.tok, !.calls = r.calls, !.failed = r.failed]

Init ==
    /\ krb5_iov \in BOOLEAN
    /\ paired \in BOOLEAN
    /\ cctx = ClientCtx_new(None, IF paired THEN "service" ELSE "other",
                            Sound).ctx
    /\ sctx = ServerCtx_new(None, Sound).ctx
    /\ wire = None
    /\ msg = << >> /\ queue = << >> /\ inSync = TRUE
    /\ res = NoCall
    /\ octx = Absent("initiator")
    /\ dup = ""
    /\ now = 0

\* the initiator was constructed for the principal the acceptor accepts as
Paired(c, s) ==
    /\ c.st # "Absent"
    /\ s.st # "Absent"
    /\ c.target = s.name

\* a token of an odd leg is addressed to the acceptor, of an even leg to
\* the initiator
ForClient(tok) == tok # None /\ tok[1].leg % 2 = 0 /\ tok[1] # BadTok
ForServer(tok) == tok # None /\ tok[1].leg % 2 = 1

\* --------------------------------------------------------------- handshake
\* the caller calls ClientCtx::step(token)
ClientStep(token, more, lenient) ==
    LET r == ClientCtx_step(cctx, token, more, lenient)
    IN  /\ cctx' = r.ctx
        /\ wire' = IF r.kind = "ok" /\ r.tok # None THEN r.tok
                   ELSE IF token # None /\ token = wire THEN None ELSE wire
        /\ res' = Stepped("client", token, r)
        /\ UNCHANGED << build, pool, now, sctx, stream >>

\* the caller calls ServerCtx::step(token)
ServerStep(token, more) ==
    LET r == ServerCtx_step(sctx, token, more, paired, cctx.name)
    IN  /\ sctx' = r.ctx
        /\ wire' = IF r.kind = "ok" /\ r.tok # None THEN r.tok
                   ELSE IF token # None /\ token = wire THEN None ELSE wire
        /\ res' = Stepped("server", token, r)
        /\ UNCHANGED << build, pool, now, cctx, stream >>

\* the initiator's first call
Open ==
    /\ cctx.st = "Created"
    /\ \E more \in BOOLEAN : ClientStep(None, more, FALSE)

\* the transport hands the token in flight to its addressee
Deliver ==
    \/ /\ ForClient(wire)
       /\ \E more \in BOOLEAN : ClientStep(wire, more, FALSE)
    \/ /\ ForServer(wire)
       /\ \E more \in BOOLEAN : ServerStep(wire, more)

\* a step the handshake does not call for: no token, or a token the peer
\* did not send
Misstep ==
    \/ /\ cctx.st # "Created"
       /\ ClientStep(None, FALSE, FALSE)
    \/ \E more, lenient \in BOOLEAN : ClientStep(Some(BadTok), more, lenient)
    \/ ServerStep(None, FALSE)
    \/ ServerStep(Some(BadTok), FALSE)

\* -------------------------------------------------------------- protection
\* the caller calls wrap(encrypt, m)
Wrap(who, encrypt, m) ==
    /\ res' = [Call("wrap", who, K5Ctx_wrap(Ctx(who), encrypt, m))
                   EXCEPT !.encrypt = encrypt, !.before = m]
    /\ UNCHANGED << build, pool, now, cctx, sctx, wire, stream >>

\* a token damaged in transit
Damaged == << TokId, 0, 1, 1 >>

\* the caller calls unwrap(token)
Unwrap(who, token) ==
    /\ res' = [Call("unwrap", who, K5Ctx_unwrap(Ctx(who), token))
                   EXCEPT !.before = token,
                          !.expect = IF res.op = "wrap" /\ res.kind = "ok"
                                        /\ token = res.val
                                        /\ who = Peer(res.who)
                                     THEN Some([plain |-> res.before,
                                                encrypt |-> res.encrypt,
                                                by |-> res.who,
                                                stale |-> Fresh,
                                                total |-> Len(token)])
                                     ELSE None]
    /\ UNCHANGED << build, pool, now, cctx, sctx, wire, stream >>

\* the source buffer has room for one more message of this sender
Room(who) ==
    /\ inSync
    /\ Len(queue) < MaxPacked
    /\ queue # << >> => queue[1].by = who

\* The caller puts m into data and calls wrap_iov(encrypt, h, data, p, t).
\* send: the caller then sends the four buffers, in order, and the peer's
\* caller appends them to its source buffer (one source buffer takes the
\* messages of one sender).
WrapIov(who, encrypt, h, m, p, t, send) ==
    LET r == wrap_iov(krb5_iov, Ctx(who), encrypt, h, m, p, t)
        sent == send /\ r.ok
    IN  /\ send => Room(who)
        /\ msg' = IF sent
                  THEN msg \o r.header \o r.data \o r.padding \o r.trailer
                  ELSE msg
        /\ queue' = IF sent
                    THEN Append(queue,
                           [plain |-> m, encrypt |-> encrypt, by |-> who,
                            stale |-> << h, p, t >>,
                            total |-> Len(r.header) + Len(r.data)
                                      + Len(r.padding) + Len(r.trailer)])
                    ELSE queue
        /\ res' = [NoCall EXCEPT !.op = "wrap_iov", !.who = who,
                                 !.pre = Ctx(who).st, !.encrypt = encrypt,
                                 !.kind = IF r.ok THEN "ok" ELSE "err",
                                 !.major = IF r.ok THEN ""
                                           ELSE "GSS_S_NO_CONTEXT",
                                 !.before = m, !.stale = << h, p, t >>,
                                 !.header = r.header, !.data = r.data,
                                 !.padding = r.padding,
                                 !.trailer = r.trailer,
                                 !.calls = r.calls, !.failed = r.failed,
                                 !.probe = r.probe, !.given = r.given]
        /\ UNCHANGED << build, pool, now, cctx, sctx, wire, inSync >>

\* the call unwraps the oldest packed message: its length, on its receiver
Framed(who, len) ==
    /\ inSync
    /\ queue # << >>
    /\ queue[1].total = len
    /\ queue[1].by = Peer(who)

\* the lengths a caller passes: that of the oldest message, one less, the
\* whole buffer, nothing, and one more than the buffer holds
Lens ==
    {0, Len(msg), Len(msg) + 1}
    \cup (IF queue = << >> THEN {}
          ELSE {queue[1].total} \cup ({queue[1].total - 1} \ {0 - 1}))

\* the caller calls unwrap_iov(len, msg)
UnwrapIov(who, len) ==
    LET r == unwrap_iov(krb5_iov, Ctx(who), len, msg)
        framed == Framed(who, len)
    IN  /\ inSync
        /\ msg' = r.msg
        /\ queue' = IF framed /\ r.kind = "ok" THEN Tail(queue) ELSE queue
        /\ inSync' = (r.msg = msg \/ (framed /\ r.kind = "ok"))
        /\ res' = [NoCall EXCEPT !.op = "unwrap_iov", !.who = who,
                                 !.pre = Ctx(who).st, !.kind = r.kind,
                                 !.major = IF r.kind = "err"
                                           THEN "GSS_S_DEFECTIVE_TOKEN"
                                           ELSE "",
                                 !.val = r.out, !.len = len,
                                 !.before = msg, !.framed = framed,
                                 !.expect = IF framed THEN Some(queue[1])
                                            ELSE None,
                                 !.calls = r.calls, !.failed = r.failed]
        /\ UNCHANGED << build, pool, now, cctx, sctx, wire >>

\* the caller calls ttl(); before: the duration ttl() returned to the call
\* just before this one, if that was ttl() on the same context
Ttl(who) ==
    /\ res' = [Call("ttl", who, K5Ctx_ttl(Ctx(who), now))
                   EXCEPT !.before = IF /\ res.op = "ttl" /\ res.who = who
                                        /\ res.kind = "ok"
                                     THEN res.val ELSE None]
    /\ UNCHANGED << build, pool, now, cctx, sctx, wire, stream >>

\* the caller calls client() on the acceptor
Client ==
    /\ res' = LET r == ServerCtx_client(sctx)
               IN  [NoCall EXCEPT !.op = "client", !.who = "server",
                                  !.pre = sctx.st, !.kind = r.kind,
                                  !.major = r.major, !.name = r.name,
                                  !.calls = r.calls, !.failed = r.failed]
    /\ UNCHANGED << build, pool, now, cctx, sctx, wire, stream >>

\* the callers' inputs to wrap_iov; buffers that still hold old bytes are
\* passed for the first message of the source buffer
Sends(send) ==
    \E who \in Who, encrypt \in BOOLEAN, m \in Plain,
       s \in IF queue = << >> THEN Stale ELSE {<< >>} :
        WrapIov(who, encrypt, s, m, s, s, send)

Unwraps == \E who \in Who, len \in Lens : UnwrapIov(who, len)

\* every operation, called in any order; at most one message is in the
\* source buffer
Next ==
    \/ Open
    \/ Deliver
    \/ Misstep
    \/ \E who \in Who, encrypt \in BOOLEAN, m \in Plain : Wrap(who, encrypt, m)
    \/ \E who \in Who : Unwrap(who, Damaged)
    \/ /\ res.op = "wrap" /\ res.kind = "ok"
       /\ Unwrap(Peer(res.who), res.val)
    \/ Sends(FALSE)
    \/ /\ queue = << >>
       /\ Sends(TRUE)
    \/ Unwraps
    \/ \E who \in Who : Ttl(who)
    \/ Client

Spec == Init /\ [][Next]_vars

\* a session: the handshake in turn, then messages packed in the source
\* buffer and unwrapped from it
Session ==
    \/ Open
    \/ Deliver
    \/ Sends(TRUE)
    \/ Unwraps

SessionSpec == Init /\ [][Session]_vars

\* the initiator opens and the transport delivers every token in flight
FairSessionSpec == SessionSpec /\ WF_vars(Open) /\ WF_vars(Deliver)

\* a handshake in which the acceptor's caller also steps it with no token,
\* at any time and any number of times, and asks the contexts who and how
\* long; the initiator opens and the transport delivers every token in
\* flight
Rejected == ServerStep(None, FALSE)

RejectNext ==
    \/ Open
    \/ Deliver
    \/ Rejected
    \/ \E who \in Who : Ttl(who)
    \/ Client

RejectSpec ==
    /\ Init
    /\ [][RejectNext]_vars
    /\ WF_vars(Open)
    /\ WF_vars(Deliver)

\* ------------------------------------------------------------ construction
\* what callers pass for the optional local principal and for the target
Principals == {None, Some("alice"), Some("service"), Some("other")}
Targets == {"service", "other"}

Constructed(op, who, principal, target, env, r) ==
    [NoCall EXCEPT !.op = op, !.who = who, !.pre = Ctx(who).st,
                   !.kind = r.kind, !.major = r.at,
                   !.principal = principal, !.target = target,
                   !.env = env, !.calls = r.calls]

\* the caller, having no initiator yet, calls
\* ClientCtx::new(principal, target_principal) and keeps what it returns
NewClient(principal, target, env) ==
    LET r == ClientCtx_new(principal, target, env)
    IN  /\ cctx.st = "Absent"
        /\ cctx' = r.ctx
        /\ paired' = Paired(r.ctx, sctx)
        /\ res' = Constructed("new", "client", principal, target, env, r)
        /\ UNCHANGED << krb5_iov, pool, now, sctx, wire, stream >>

\* the caller, having no acceptor yet, calls ServerCtx::new(principal) and
\* keeps what it returns
NewServer(principal, env) ==
    LET r == ServerCtx_new(principal, env)
    IN  /\ sctx.st = "Absent"
        /\ sctx' = r.ctx
        /\ paired' = Paired(cctx, r.ctx)
        /\ res' = Constructed("new", "server", principal, "", env, r)
        /\ UNCHANGED << krb5_iov, pool, now, cctx, wire, stream >>

\* before construction: no context exists
NewInit ==
    /\ krb5_iov \in BOOLEAN
    /\ paired = FALSE
    /\ cctx = Absent("initiator")
    /\ sctx = Absent("acceptor")
    /\ wire = None
    /\ msg = << >> /\ queue = << >> /\ inSync = TRUE
    /\ res = NoCall
    /\ octx = Absent("initiator")
    /\ dup = ""
    /\ now = 0

\* contexts are constructed, against any state of the store, and those
\* that exist run the handshake
NewNext ==
    \/ \E principal \in {None, Some("alice")}, target \in Targets,
          env \in Envs : NewClient(principal, target, env)
    \/ \E principal \in {None, Some("service"), Some("other")},
          env \in Envs : NewServer(principal, env)
    \/ Open
    \/ sctx.st # "Absent" /\ cctx.st # "Absent" /\ Deliver

NewSpec == NewInit /\ [][NewNext]_vars

\* ------------------------------------------------- several context values
\* the context values a caller may hold: the pair of the session, the
\* initiator of another session, and a clone of one of the pair
Values == {"client", "server", "other", "clone"}

\* the caller clones the ClientCtx or the ServerCtx (#[derive(Clone)])
Clone(who) ==
    /\ dup # who
    /\ dup' = who
    /\ res' = [NoCall EXCEPT !.op = "clone", !.who = "clone",
                             !.pre = Ctx(who).st, !.kind = "ok"]
    /\ UNCHANGED << build, now, cctx, sctx, octx, wire, stream >>

\* the caller calls step(token) on the other initiator or on the clone
PoolStep(who, token, more) ==
    LET h == Handle(who)
        c == State(h)
        r == IF c.role = "initiator"
             THEN ClientCtx_step(c, token, more, FALSE)
             ELSE ServerCtx_step(c, token, more, paired, cctx.name)
    IN  /\ c.st # "Absent"
        /\ cctx' = IF h = "client" THEN r.ctx ELSE cctx
        /\ sctx' = IF h = "server" THEN r.ctx ELSE sctx
        /\ octx' = IF h = "other" THEN r.ctx ELSE octx
        /\ wire' = IF who = "other" THEN wire
                   ELSE IF r.kind = "ok" /\ r.tok # None THEN r.tok
                   ELSE IF token # None /\ token = wire THEN None ELSE wire
        /\ res' = Stepped(who, token, r)
        /\ UNCHANGED << build, now, dup, stream >>

\* the tokens a context value is stepped with: none, or what its peer sent
\* (the other initiator's peer is not part of the model: it sends the leg
\* that initiator awaits, as its last)
Offered(who) ==
    IF who = "other" THEN {None, Some(Token(octx.await, TRUE))}
    ELSE IF Ctx(who).role = "initiator"
    THEN {None} \cup (IF ForClient(wire) THEN {wire} ELSE {})
    ELSE {None} \cup (IF ForServer(wire) THEN {wire} ELSE {})

\* a session's pair and the initiator of another session, all constructed
PoolInit ==
    /\ krb5_iov \in BOOLEAN
    /\ \E principal \in {None, Some("alice")}, target \in Targets :
           cctx = ClientCtx_new(principal, target, Sound).ctx
    /\ sctx = ServerCtx_new(None, Sound).ctx
    /\ \E principal \in {None, Some("alice")} :
           octx = ClientCtx_new(principal, "other", Sound).ctx
    /\ paired = Paired(cctx, sctx)
    /\ dup = ""
    /\ now = 0
    /\ wire = None
    /\ msg = << >> /\ queue = << >> /\ inSync = TRUE
    /\ res = NoCall

\* the session's handshake, and any call on any context value in between
PoolNext ==
    \/ Open
    \/ Deliver
    \/ \E who \in Who : Clone(who)
    \/ \E who \in {"other", "clone"}, more \in BOOLEAN :
           \E token \in Offered(who) : PoolStep(who, token, more)
    \/ \E who \in Values : Ctx(who).st # "Absent" /\ Ttl(who)
    \/ Client

PoolSpec == PoolInit /\ [][PoolNext]_vars

\* -------------------------------------------------------------- the clock
\* time passes
Tick ==
    /\ now < MaxNow
    /\ now' = now + 1
    /\ UNCHANGED << build, pool, cctx, sctx, wire, stream, res >>

\* a session whose contexts are asked for their time to live as time passes
ClockNext ==
    \/ Open
    \/ Deliver
    \/ Tick
    \/ \E who \in Who : Ttl(who)
    \/ \E who \in Who, encrypt \in BOOLEAN, m \in Plain : Wrap(who, encrypt, m)

ClockSpec == Init /\ [][ClockNext]_vars

TypeOK ==
    /\ cctx.st \in {"Created", "Negotiating", "Established", "Failed"}
    /\ sctx.st \in {"Created", "Negotiating", "Established", "Failed"}
    /\ Len(wire) <= 1
    /\ Len(queue) <= MaxPacked
    /\ paired = Paired(cctx, sctx)


\* ================================================================== claims
ProtOps == {"wrap", "wrap_iov", "unwrap", "unwrap_iov", "ttl", "client"}
Concat(r) == r.header \o r.data \o r.padding \o r.trailer

\* C1: ServerCtx::step(None) fails with the 'defective token' major status
\* in every state of the acceptor; it never returns Ok.
C1_ServerStepNoneIsDefective ==
    (res.op = "step" /\ res.who = "server" /\ res.arg = None)
        => (res.kind = "err" /\ res.major = "GSS_S_DEFECTIVE_TOKEN")

\* C1 witness: step(None) was rejected on an acceptor that is Negotiating.
C1_Witness ==
    /\ res.op = "step" /\ res.who = "server" /\ res.arg = None
    /\ res.pre = "Negotiating"
    /\ res.kind = "err"

\* the handshake is over: both contexts established, no token in flight
HandshakeDone ==
    /\ Established(cctx)
    /\ Established(sctx)
    /\ wire = None

\* C2: a correctly paired handshake, each side fed the other's token in
\* turn, takes at most MaxLegs tokens and reaches a state where both
\* contexts are established, no token is in flight and the last step
\* returned None.
C2_HandshakeTerminates ==
    /\ [](wire # None => wire[1].leg <= MaxLegs)
    /\ (paired /\ cctx.st = "Created")
           ~> (/\ HandshakeDone
               /\ res.op = "step" /\ res.kind = "ok" /\ res.tok = None)

\* C2 witness: a paired handshake of more than one token has completed.
C2_Witness ==
    /\ paired
    /\ HandshakeDone
    /\ res.op = "step" /\ res.tok = None
    /\ res.arg # None /\ res.arg[1].leg > 1

\* what the receiver is handed for a message wrapped into the four buffers
\* r: their concatenation (segmented) or the token in data (single-blob)
Protected(feature, r) == IF feature THEN Concat(r) ELSE r.data

\* wrap_iov on the sender, then unwrap_iov on the receiver, in one strategy
RoundTrip(feature, sender, receiver, encrypt, stale, m, rest) ==
    LET w == wrap_iov(feature, sender, encrypt, stale[1], m, stale[2],
                      stale[3])
        pm == Protected(feature, w)
    IN  unwrap_iov(feature, receiver, Len(pm), pm \o rest)

\* C3: between established contexts, unwrap_iov of the protected message
\* that wrap_iov made of m returns m, for both values of encrypt; both
\* strategies do so and return the same plaintext.
C3_RoundTrip ==
    /\ (/\ res.op = "unwrap_iov" /\ res.framed
        /\ res.pre = "Established"
        /\ (krb5_iov \/ res.expect[1].stale = Fresh))
           => (res.kind = "ok" /\ res.val = res.expect[1].plain)
    /\ (/\ res.op = "wrap_iov" /\ res.kind = "ok"
        /\ Established(Ctx(Peer(res.who))))
           => LET seg == RoundTrip(TRUE, Ctx(res.who), Ctx(Peer(res.who)),
                                   res.encrypt, res.stale, res.before, msg)
                  blob == RoundTrip(FALSE, Ctx(res.who), Ctx(Peer(res.who)),
                                    res.encrypt, res.stale, res.before, msg)
              IN  /\ seg.kind = "ok" /\ seg.out = res.before
                  /\ blob.kind = "ok" /\ blob.out = res.before
                  /\ seg.msg = msg /\ blob.msg = msg

\* C3 witness: a sealed, non-empty message came back from unwrap_iov.
C3_Witness ==
    /\ res.op = "unwrap_iov" /\ res.framed /\ res.kind = "ok"
    /\ res.expect[1].encrypt
    /\ res.expect[1].plain # << >>
    /\ res.val = res.expect[1].plain

\* C4: after wrap_iov, the four buffers concatenated in order, unwrapped
\* with the sum of their lengths, give back the message, whatever the four
\* buffers held when wrap_iov was called.
C4_SegmentAccounting ==
    (res.op = "unwrap_iov" /\ res.framed /\ res.pre = "Established")
        => (res.kind = "ok" /\ res.val = res.expect[1].plain)

RECURSIVE Totals(_)
Totals(q) == IF q = << >> THEN 0 ELSE Head(q).total + Totals(Tail(q))

\* C5: a successful unwrap_iov(len, msg) returns the recovered plaintext and
\* leaves msg holding its bytes from offset len on; so the packed messages
\* come out one by one, in order, and the buffer ends empty.
C5_UnwrapAdvances ==
    /\ (res.op = "unwrap_iov" /\ res.kind = "ok")
           => /\ msg = Advance(res.before, res.len)
              /\ res.val = GssUnwrap(Ctx(res.who),
                                     SplitTo(res.before, res.len)).plain
              /\ res.framed => res.val = res.expect[1].plain
    /\ inSync => Len(msg) = Totals(queue)

\* C5 witness: the first of two packed messages was unwrapped and the
\* second is what the buffer still holds.
C5_Witness ==
    /\ res.op = "unwrap_iov" /\ res.kind = "ok" /\ res.framed
    /\ res.val # << >>
    /\ Len(queue) = 1
    /\ msg # << >>
    /\ Len(msg) = queue[1].total

\* C6: single-blob wrap_iov leaves the token in data and header, padding
\* and trailer empty, whatever they held at the call.
C6_BlobLeavesSegmentsEmpty ==
    (res.op = "wrap_iov" /\ ~krb5_iov /\ res.kind = "ok")
        => /\ res.data = GssWrap(Ctx(res.who), res.encrypt, res.before).token
           /\ res.header = << >>
           /\ res.padding = << >>
           /\ res.trailer = << >>

\* C7: wrap, wrap_iov, unwrap, unwrap_iov, ttl and client on a context that
\* is not established never succeed; they return an error (unwrap_iov with
\* a length inside the buffer included).
C7_NoSuccessBeforeEstablished ==
    (res.op \in ProtOps /\ res.pre # "Established")
        => /\ res.kind # "ok"
           /\ res.kind = "err"
                 \/ (res.op = "unwrap_iov" /\ res.len > Len(res.before))

\* C7 witness: unwrap_iov of a whole packed message failed on a context
\* that is still Negotiating.
C7_Witness ==
    /\ res.op = "unwrap_iov" /\ res.pre = "Negotiating"
    /\ res.framed
    /\ res.kind = "err"

C9_StrategiesAgree ==
    res.op = "unwrap_iov"
        => LET seg == unwrap_iov_segmented(Ctx(res.who), res.len, res.before)
               blob == unwrap_iov_blob(Ctx(res.who), res.len, res.before)
           IN  /\ seg.kind = blob.kind
               /\ seg.out = blob.out
               /\ Len(seg.msg) = Len(blob.msg)

Rank(st) ==
    CASE st = "Created" -> 0
      [] st = "Negotiating" -> 1
      [] st = "Established" -> 2
      [] OTHER -> 3

\* C10: a context only moves forward through Created, Negotiating,
\* Established; a successful step that returns None leaves its context
\* established and one that returns a token leaves it established exactly
\* when the token is this side's last;
\* no wrap, wrap_iov, unwrap, unwrap_iov, ttl or client call moves an
\* established context.
C10_StateMachine ==
    /\ [][/\ Rank(cctx'.st) >= Rank(cctx.st)
          /\ Rank(sctx'.st) >= Rank(sctx.st)
          /\ res'.op \in ProtOps => (cctx' = cctx /\ sctx' = sctx)]_vars
    /\ [](Established(cctx) => [](Established(cctx)))
    /\ [](Established(sctx) => [](Established(sctx)))
    /\ []((res.op = "step" /\ res.kind = "ok")
            => IF res.tok = None
               THEN Established(Ctx(res.who))
               ELSE /\ res.tok[1].last = Established(Ctx(res.who))
                    /\ res.tok[1].leg <= MaxLegs
                    /\ res.pre # "Established")

\* C10 witness: a protection call succeeded on an established context and
\* both contexts are still established.
C10_Witness ==
    /\ res.op = "unwrap_iov" /\ res.kind = "ok"
    /\ res.pre = "Established"
    /\ Established(cctx) /\ Established(sctx)

\* the first operation of a constructor, in the order of its code, that
\* the store or the library fails; "" when none does
FirstFailure(who, principal, target, env) ==
    IF principal # None /\ principal[1] \notin env.known THEN "name"
    ELSE IF who = "client" /\ target \notin env.known THEN "target"
    ELSE IF env.mech # "ok" THEN env.mech
    ELSE IF ~env.cred THEN "acquire"
    ELSE ""

\* C11: ClientCtx::new and ServerCtx::new return a constructed context when
\* no operation of theirs fails; when resolving the local principal or the
\* target, building the mechanism set or acquiring the credential fails,
\* they stop at that operation and return its error, and no context exists.
C11_ConstructionAllOrNothing ==
    res.op = "new"
        => LET c == Ctx(res.who)
               fail == FirstFailure(res.who, res.principal, res.target,
                                    res.env)
           IN  IF fail = ""
               THEN /\ res.kind = "ok"
                    /\ c.st = "Created"
                    /\ c.role = IF res.who = "client" THEN "initiator"
                                ELSE "acceptor"
                    /\ res.calls[Len(res.calls)] = "context"
                    /\ c.name = IF res.principal = None
                                THEN DefaultPrincipal(
                                         IF res.who = "client"
                                         THEN "Initiate" ELSE "Accept")
                                ELSE GssCanonicalName(
                                         Sound, res.principal[1]).name
                    /\ res.who = "client"
                         => c.target = GssCanonicalName(Sound,
                                                        res.target).name
               ELSE /\ res.kind = "err"
                    /\ res.major = fail
                    /\ res.calls[Len(res.calls)] = fail
                    /\ \A i \in 1..Len(res.calls) : res.calls[i] # "context"
                    /\ c = Absent(c.role)

\* C11 witness: ClientCtx::new resolved both names and built the mechanism
\* set, the credential was refused, and no initiator exists.
C11_Witness ==
    /\ res.op = "new" /\ res.who = "client"
    /\ res.principal # None
    /\ res.kind = "err" /\ res.major = "acquire"
    /\ res.calls = << "name", "target", "oidset", "add", "acquire" >>
    /\ cctx.st = "Absent"

\* C12: once the acceptor is established, client() succeeds and returns the
\* canonical name of the initiator whose handshake established it: not the
\* name the acceptor accepts under, nor that of another initiator.
C12_ClientIsTheInitiator ==
    (res.op = "client" /\ res.pre = "Established")
        => /\ res.kind = "ok"
           /\ res.name = cctx.name
           /\ res.name # sctx.name
           /\ octx.name # cctx.name => res.name # octx.name

\* C12 witness: client() answered "alice@REALM" after alice's handshake
\* completed, while another initiator holds the default principal.
C12_Witness ==
    /\ res.op = "client" /\ res.kind = "ok"
    /\ HandshakeDone
    /\ res.name = "alice@REALM"
    /\ octx.name = "user@REALM"
    /\ octx.st # "Created"

\* C13: of two successive ttl() calls on one established context, with no
\* other call in between, the second returns no longer a duration than the
\* first, however much time has passed.
C13_TtlNonIncreasing ==
    [][(/\ res.op = "ttl" /\ res.kind = "ok"
        /\ res'.op = "ttl" /\ res'.kind = "ok"
        /\ res'.who = res.who)
          => res'.val[1] <= res.val[1]]_vars

\* C13 witness: ttl() returned a shorter duration than the ttl() just
\* before it on the same established context.
C13_Witness ==
    /\ res.op = "ttl" /\ res.kind = "ok"
    /\ res.before # None
    /\ res.val[1] < res.before[1]
    /\ Established(Ctx(res.who))

Apart(x, y, original) ==
    /\ x # y
    /\ ~(x = "clone" /\ y = original)
    /\ ~(y = "clone" /\ x = original)

IsResized(to, b, n) ==
    /\ Len(to) = n
    /\ \A i \in 1..n : to[i] = IF i <= Len(b) THEN b[i] ELSE 0

\* C15: segmented wrap_iov first probes the lengths for the length of data
\* and the encrypt flag, then resizes header, padding and trailer to the
\* probed lengths, zero-filling what it adds, then transforms in place with
\* the same flag; the transform gets the probed lengths and no others, and
\* data is as long after the call as before.
C15_ProbeResizeTransform ==
    (res.op = "wrap_iov" /\ krb5_iov)
        => /\ res.calls \in {<< "wrap_iov_length" >>,
                             << "wrap_iov_length", "resize", "wrap_iov" >>}
           /\ res.probe.encrypt = res.encrypt
           /\ res.probe.n = Len(res.before)
           /\ Len(res.data) = Len(res.before)
           /\ (res.kind = "ok") = (Len(res.calls) = 3)
           /\ Len(res.calls) = 3
                => /\ res.given.encrypt = res.encrypt
                   /\ res.given.data = res.before
                   /\ IsResized(res.given.header, res.stale[1],
                                res.probe.header)
                   /\ IsResized(res.given.padding, res.stale[2],
                                res.probe.padding)
                   /\ IsResized(res.given.trailer, res.stale[3],
                                res.probe.trailer)

\* C15 witness: a sealed one-byte message was wrapped into buffers that
\* held old bytes: the header was cut to the probed length, the padding cut
\* to the one byte the mechanism needs.
C15_Witness ==
    /\ res.op = "wrap_iov" /\ krb5_iov /\ res.kind = "ok"
    /\ res.encrypt
    /\ res.stale[1] = << 9, 9, 9 >>
    /\ res.given.header = << 9, 9 >>
    /\ res.probe.padding = 1
    /\ res.given.padding = << 9 >>
    /\ Len(res.before) = 1

\* the calls of the K5Ctx and K5ServerCtx methods
Methods == ProtOps \cup {"step"}

\* C16: a step, wrap, wrap_iov, unwrap, unwrap_iov, ttl or client call
\* invokes no mechanism operation twice; when a mechanism operation fails
\* the call invokes nothing after it and returns an error, never a value.
C16_NoRetryNoRecovery ==
    res.op \in Methods
        => /\ \A i, j \in 1..Len(res.calls) :
                  res.calls[i] = res.calls[j] => i = j
           /\ res.failed # ""
                => /\ res.kind = "err"
                   /\ res.calls[Len(res.calls)] = res.failed
           /\ res.kind = "ok" => res.failed = ""

\* C16 witness: the mechanism refused a damaged message on an established
\* context; unwrap asked it once and returned the error.
C16_Witness ==
    /\ res.op = "unwrap" /\ res.pre = "Established"
    /\ res.before = Damaged
    /\ res.failed = "unwrap"
    /\ res.calls = << "unwrap" >>
    /\ res.kind = "err"

\* C17: ServerCtx::step(None) is rejected without a call of the mechanism
\* and changes neither context nor the token in flight; however often it
\* happens, a paired handshake fed its tokens still completes.
C17_RejectionLeavesHandshake ==
    /\ []((res.op = "step" /\ res.who = "server" /\ res.arg = None)
             => (res.kind = "err" /\ res.calls = << >>))
    /\ [][(res'.op = "step" /\ res'.who = "server" /\ res'.arg = None)
             => (sctx' = sctx /\ cctx' = cctx /\ wire' = wire)]_vars
    /\ (paired /\ cctx.st = "Created") ~> HandshakeDone

\* C17 witness: step(None) was rejected on a Negotiating acceptor whose
\* reply is in flight; the acceptor is Negotiating still and the reply is
\* still in flight.
C17_Witness ==
    /\ res.op = "step" /\ res.who = "server" /\ res.arg = None
    /\ res.kind = "err" /\ res.calls = << >>
    /\ res.pre = "Negotiating"
    /\ sctx.st = "Negotiating"
    /\ ForClient(wire)
    /\ paired

\* C18: a wrap_iov that fails leaves header, data, padding and trailer as
\* they were passed, and an unwrap_iov that fails leaves the source buffer
\* as it was: as long as before, with the bytes it held.
C18_FailureLeavesBuffers ==
    /\ (res.op = "wrap_iov" /\ res.kind = "err")
           => /\ res.header = res.stale[1]
              /\ res.data = res.before
              /\ res.padding = res.stale[2]
              /\ res.trailer = res.stale[3]
    /\ (res.op = "unwrap_iov" /\ res.kind = "err")
           => /\ Len(msg) = Len(res.before)
              /\ msg = res.before

\* C19: when segmented unwrap_iov is called with len within the buffer and
\* the mechanism succeeds, the header length and data length it reports add
\* up to at most len, the call returns the data that lies between them and
\* the source buffer has lost exactly its first len bytes; and in neither
\* build does a call with len beyond the buffer return a value.
C19_LengthsWithinLen ==
    res.op = "unwrap_iov"
        => /\ res.len > Len(res.before) => res.kind # "ok"
           /\ (krb5_iov /\ res.len <= Len(res.before))
                => LET iov == GssUnwrapIov(Ctx(res.who),
                                           SubSeq(res.before, 1, res.len))
                   IN  /\ iov.ok = (res.kind = "ok")
                       /\ iov.ok
                            => /\ iov.hdr_len + iov.data_len <= res.len
                               /\ res.val = SubSeq(iov.stream,
                                                   iov.hdr_len + 1,
                                                   iov.hdr_len
                                                     + iov.data_len)
                               /\ Len(msg) = Len(res.before) - res.len
                               /\ msg = Advance(res.before, res.len)

\* C19 witness: segmented unwrap_iov took a sealed one-byte message, with
\* its padding and trailer, off a buffer that holds another one behind it.
C19_Witness ==
    /\ res.op = "unwrap_iov" /\ krb5_iov /\ res.kind = "ok"
    /\ res.framed /\ res.expect[1].encrypt
    /\ Len(res.val) = 1
    /\ res.len = HdrLen + 1 + 1 + TrlLen
    /\ res.len < Len(res.before)
    /\ msg # << >>

====
